---- MODULE Spec2Model ----
(***************************************************************************)
(* Lease-based distributed lock of aws_lambda_powertools                   *)
(* (utilities/dynamodb_lock/client.py, db_lock.py).                        *)
(*                                                                         *)
(* DynamoDBLockClient instances share one table and contend for one key.   *)
(* Every client has an application thread that calls acquire_lock and      *)
(* release_lock, and the two background threads started by the             *)
(* constructor (heartbeat sender, heartbeat checker).                      *)
(*                                                                         *)
(* Time is the monotonic clock in whole seconds.  Code between two sleeps  *)
(* takes no time: the clock advances only while no thread has a step to    *)
(* run.  A caller sleeping in acquire_lock wakes exactly on its retry      *)
(* boundary.  The background threads of a client are on time unless its    *)
(* process is stalled (frozen, descheduled), which is how a holder stops   *)
(* renewing; the application thread of a stalled client may still run.     *)
(* close() and store errors other than a failed condition occur under      *)
(* SpecFault and SpecClose only.                                           *)
(* A pass of a background loop over an empty self._locks                   *)
(* changes nothing and is not represented; the phase of the loops, which   *)
(* the constructor starts together and which keep the same period, is      *)
(* chosen when a lock is registered.                                       *)
(*                                                                         *)
(* uuid4 values are modelled as the pair <<lock object, n>>: the n-th      *)
(* value drawn for that lock object, so every drawn value is fresh.        *)
(* The TTL of an item (expiry_period, one hour) lies beyond the horizon    *)
(* of the model, so the table never deletes an item by itself.             *)
(***************************************************************************)
EXTENDS Integers, Sequences, FiniteSets, TLC

VARIABLES
    party,          \* the clients that exist
    now,            \* time.monotonic()
    store,          \* the item of the key in the DynamoDB table, or NoRec
    deletes,        \* number of successful delete_item calls on the key
    locks,          \* the DynamoDBLock objects created so far (a sequence)
    active,         \* client -> self._locks[unique_identifier] (0: absent)
    acq,            \* client -> the frame of its acquire_lock call
    snd,            \* client -> position of _send_heartbeat_loop
    chk,            \* client -> position of _check_heartbeat_loop
    shutting_down,  \* client -> self._shutting_down
    stalled,        \* client -> its background threads are not being run
    alternating,    \* acquire_lock was never called while a lease was held
    breaker,        \* the fields of the circuit breaker object
    call,           \* thread -> the frame of its call of the decorated function
    started,        \* number of calls of the decorated function so far
    table,          \* the item of the circuit breaker in its DynamoDB table
    inst            \* instance -> a circuit breaker object backed by the table

\* the variables of the circuit breakers backed by a table
rvars == <<table, inst>>

\* the variables of the circuit breaker
bvars == <<breaker, call, started, rvars>>

vars == <<party, now, store, deletes, locks, active, acq, snd, chk,
          shutting_down, stalled, alternating, bvars>>

----------------------------------------------------------------------------
(* Bounds of the model *)
MaxTime == 3
MaxLocks == 2
MaxLocksSolo == 3

(* Configuration of the clients: the periods passed to the constructor, in
   seconds, with heartbeat_period < safe_period <= lease_duration as in the
   defaults (5 s, 20 s, 30 s); expiry_period is the default hour *)
Clients == {"A", "B"}
HeartbeatPeriod == 1
SafePeriod == 2
LeaseDuration == 2
ExpiryPeriod == 3600

(* The clients whose process may be frozen *)
Freezable == {"A"}

(* Arguments the application passes; 0 stands for None *)
RetryPeriods == {0}
RetryTimeouts == {0, 1, 2}

Solo == party = {"A"}

----------------------------------------------------------------------------
(* The table item and the lock objects *)

NoRvn == <<0, 0>>

NoRec == [owner |-> "none", rvn |-> NoRvn, lease |-> 0, expiry |-> 0]

\* _get_item_from_lock: the item written for a lock object
GetItemFromLock(l, id) ==
    [owner |-> l.owner, rvn |-> <<id, l.ver>>, lease |-> l.lease,
     expiry |-> l.expiry]

\* DynamoDBLock.__init__ as called by acquire_lock; the fields from via on
\* are history: how the lock was won (the token it replaced, the number of
\* deletes before, the age of the record it replaced), how often a failed
\* heartbeat removed it from self._locks and submitted LOCK_STOLEN, how often
\* LOCK_IN_DANGER was submitted for it, and whether release_lock was called
\* on it (recorded for a client on its own)
NewLock(c) ==
    [owner |-> c, ver |-> 0, lease |-> LeaseDuration,
     expiry |-> now + ExpiryPeriod, status |-> "PENDING", lut |-> now,
     via |-> "none", basis |-> NoRvn, gen |-> 0, age |-> 0,
     pops |-> 0, stolenCb |-> 0, dangerCb |-> 0, relcalled |-> FALSE]

IdleAcq ==
    [pc |-> "idle", lk |-> 0, start |-> 0, at |-> 0, rc |-> 0, rp |-> 0,
     rt |-> 0, last |-> NoRvn, fetch |-> -1, res |-> "none"]

IdleSender == [pc |-> "wait", at |-> 0, snap |-> 0, ok |-> FALSE]

IdleChecker == [pc |-> "wait", at |-> 0]

\* the thread_lock of lock object id is held by the heartbeat sender while it
\* is inside _update_lock_freshness
ThreadLockFree(id) ==
    \A c \in Clients : ~(snd[c].pc = "upd" /\ snd[c].snap = id)

Live(id) == locks[id].status \in {"LOCKED", "IN_DANGER"}

\* the record of lock object id was overwritten by a later acquire_lock
TakenOver(id) ==
    \E j \in 1..Len(locks) : locks[j].via = "overwrite" /\ locks[j].basis[1] = id

Common ==
    /\ now = 0
    /\ store = NoRec
    /\ deletes = 0
    /\ locks = <<>>
    /\ active = [c \in Clients |-> 0]
    /\ acq = [c \in Clients |-> IdleAcq]
    /\ snd = [c \in Clients |-> IdleSender]
    /\ chk = [c \in Clients |-> IdleChecker]
    /\ shutting_down = [c \in Clients |-> FALSE]
    /\ stalled = [c \in Clients |-> FALSE]
    /\ alternating = TRUE

\* no circuit breaker is in use
NoBreaker ==
    /\ breaker = [state |-> "none"]
    /\ call = <<>>
    /\ started = 0
    /\ table = [cb_state |-> "none"]
    /\ inst = <<>>

Init == party = Clients /\ Common /\ NoBreaker

InitSolo == party = {"A"} /\ Common /\ NoBreaker

----------------------------------------------------------------------------
(* acquire_lock *)

\* the defaults plugged in by acquire_lock
RetryPeriodOrDefault(rp) == IF rp = 0 THEN HeartbeatPeriod ELSE rp

RetryTimeoutOrDefault(rt) ==
    IF rt = 0 THEN LeaseDuration + HeartbeatPeriod ELSE rt

\* faulty variants of the expiry test: any age counts as expired; one
\* second more than the lease is asked for
LeaseExpiredEarly(elapsed, lease_duration) == elapsed > 0

LeaseExpiredLate(elapsed, lease_duration) == elapsed > lease_duration + 1

\* the lease of the record read is taken as expired
LeaseExpired(elapsed, lease_duration) == elapsed > lease_duration

\* faulty variant of the give-up test: two more seconds are granted
RetryTimedOutLate(next_loop_start_time, retry_timeout_time) ==
    next_loop_start_time > retry_timeout_time + 2

\* faulty variant of the give-up test: the call never gives up
RetryTimedOutNever(next_loop_start_time, retry_timeout_time) == FALSE

\* _wait_between_acquire_lock_retry gives up
RetryTimedOut(next_loop_start_time, retry_timeout_time) ==
    next_loop_start_time > retry_timeout_time

\* the frame of a finished acquire_lock call: its outcome, its retry_count
\* and the retry_timeout it ran with
Finished(a, code) ==
    [IdleAcq EXCEPT !.res = code, !.lk = a.lk, !.rc = a.rc, !.rt = a.rt]

\* retry_count += 1 and _wait_between_acquire_lock_retry.  The retry_timeout
\* argument is first read here, and the frame holds it from here on: rt is
\* the argument of a call that has not read it yet
WaitBetweenAcquireLockRetry(a, rt) ==
    LET rc == a.rc + 1
        timeout == IF a.rc = 0 THEN RetryTimeoutOrDefault(rt) ELSE a.rt
        next_loop_start_time == a.start + rc * a.rp
    IN  IF RetryTimedOut(next_loop_start_time, a.start + timeout)
        THEN Finished([a EXCEPT !.rc = rc, !.rt = timeout], "ACQUIRE_TIMEOUT")
        ELSE [a EXCEPT !.pc = "poll", !.rc = rc, !.rt = timeout,
                       !.at = next_loop_start_time]

CONDITIONAL_CHECK_EXCEPTION == "ConditionalCheckFailedException"

\* the error codes of the ClientError a store call may raise
ClientErrors == {CONDITIONAL_CHECK_EXCEPTION, "InternalServerError"}

\* faulty variant of the except clause: every ClientError is surfaced
OnClientErrorRaise(a, rt, code) == Finished(a, "UNKNOWN")

\* the except clause of the while-loop of acquire_lock and what follows it: a
\* failed condition is logged and the call goes on to its next retry, any
\* other ClientError ends the call with UNKNOWN
OnClientError(a, rt, code) ==
    IF code = CONDITIONAL_CHECK_EXCEPTION
    THEN WaitBetweenAcquireLockRetry(a, rt)
    ELSE Finished(a, "UNKNOWN")

\* faulty variants of the insert condition: it never holds; it always holds
InsertConditionNever(item) == FALSE

InsertConditionAlways(item) == TRUE

\* the condition of the put_item of _add_new_lock_to_dynamodb
InsertCondition(item) == item = NoRec

\* faulty variant of the token condition: any existing record passes
RvnConditionAnyToken(item, record_version_number) == item # NoRec

\* the condition of the put_item of _overwrite_existing_lock_in_dynamodb, and
\* of the conditional delete_item and update_item calls
RvnCondition(item, record_version_number) ==
    item # NoRec /\ item.rvn = record_version_number

\* _register_new_lock_local_memory, with the record of how the lock was won
RegisterNewLockLocalMemory(id, how) ==
    [locks EXCEPT ![id].status = "LOCKED", ![id].via = how,
                  ![id].basis = store.rvn, ![id].gen = deletes,
                  ![id].age = IF store = NoRec THEN 0
                              ELSE now - (store.expiry - ExpiryPeriod)]

\* the background loops of c meet the newly registered lock at time t
Phased(c, t) ==
    /\ snd' = IF active[c] = 0 /\ snd[c].pc = "wait"
              THEN [snd EXCEPT ![c].at = t] ELSE snd
    /\ chk' = IF active[c] = 0 THEN [chk EXCEPT ![c].at = t] ELSE chk

AcquireStart(c, rp) ==
    /\ c \in party
    /\ acq[c].pc = "idle"
    /\ Len(locks) < (IF Solo THEN MaxLocksSolo ELSE MaxLocks)
    /\ locks' = Append(locks, NewLock(c))
    /\ acq' = [acq EXCEPT ![c] =
                 [pc |-> "poll", lk |-> Len(locks) + 1, start |-> now,
                  at |-> now, rc |-> 0, rp |-> RetryPeriodOrDefault(rp),
                  rt |-> 0, last |-> NoRvn,
                  fetch |-> -1, res |-> "none"]]
    /\ alternating' = (alternating /\ (Solo => \A i \in 1..Len(locks) : ~Live(i)))
    /\ UNCHANGED <<bvars, party, now, store, deletes, active, snd, chk,
                   shutting_down, stalled>>

\* one pass of the while-loop up to the decision taken on the record read
Poll(c, rt) ==
    LET a == acq[c] IN
    /\ a.pc = "poll"
    /\ now >= a.at
    /\ IF shutting_down[c]
       THEN /\ acq' = [acq EXCEPT ![c] = Finished(a, "CLIENT_SHUTDOWN")]
            /\ UNCHANGED locks
       ELSE /\ locks' = [locks EXCEPT ![a.lk].lut = now,
                                      ![a.lk].expiry = now + ExpiryPeriod]
            /\ IF store = NoRec
               THEN acq' = [acq EXCEPT ![c].pc = "insert"]
               ELSE IF store.rvn = a.last
               THEN IF LeaseExpired(now - a.fetch, store.lease)
                    THEN acq' = [acq EXCEPT ![c].pc = "overwrite"]
                    ELSE acq' = [acq EXCEPT ![c] =
                                   WaitBetweenAcquireLockRetry(a, rt)]
               ELSE acq' = [acq EXCEPT ![c] =
                              WaitBetweenAcquireLockRetry(
                                  [a EXCEPT !.last = store.rvn, !.fetch = now],
                                  rt)]
    /\ UNCHANGED <<bvars, party, now, store, deletes, active, snd, chk,
                   shutting_down, stalled, alternating>>

\* the conditional put_item of acquire_lock and what follows it: on success
\* the local registration and the return of the lock, on a failed condition
\* the swallowed ClientError and the wait for the next retry
PutAndRegister(c, rt, how, condition) ==
    LET a == acq[c] IN
    IF condition
    THEN /\ store' = GetItemFromLock(locks[a.lk], a.lk)
         /\ locks' = RegisterNewLockLocalMemory(a.lk, how)
         /\ active' = [active EXCEPT ![c] = a.lk]
         /\ acq' = [acq EXCEPT ![c] = Finished(a, "LOCKED")]
         /\ \E t \in now..(now + HeartbeatPeriod) : Phased(c, t)
    ELSE /\ acq' = [acq EXCEPT ![c] =
                        OnClientError(a, rt, CONDITIONAL_CHECK_EXCEPTION)]
         /\ UNCHANGED <<store, locks, active, snd, chk>>

\* _register_new_lock
Insert(c, rt) ==
    /\ acq[c].pc = "insert"
    /\ PutAndRegister(c, rt, "insert", InsertCondition(store))
    /\ UNCHANGED <<bvars, party, now, deletes, shutting_down, stalled, alternating>>

\* _register_acquired_locked_after_release, keyed on the token last seen
Overwrite(c, rt) ==
    /\ acq[c].pc = "overwrite"
    /\ PutAndRegister(c, rt, "overwrite", RvnCondition(store, acq[c].last))
    /\ UNCHANGED <<bvars, party, now, deletes, shutting_down, stalled, alternating>>

----------------------------------------------------------------------------
(* release_lock *)

\* release_lock(lock, best_effort) applied to the shared state st; out tells
\* how the call ended and wrote whether a delete_item call was issued
ReleaseLock(st, id, best_effort) ==
    LET l == st.locks[id]
        c == l.owner
        cond == RvnCondition(st.store, <<id, l.ver>>)
    IN  IF l.status \notin {"LOCKED", "IN_DANGER"}
        THEN [st EXCEPT !.out = "skipped", !.wrote = FALSE]
        ELSE IF st.active[c] = 0
        THEN [st EXCEPT !.out = "absent", !.wrote = FALSE]
        ELSE [locks |-> [st.locks EXCEPT ![id].status = "RELEASED"],
              active |-> [st.active EXCEPT ![c] = 0],
              store |-> IF cond THEN NoRec ELSE st.store,
              deletes |-> IF cond THEN st.deletes + 1 ELSE st.deletes,
              wrote |-> TRUE,
              out |-> IF cond THEN "deleted"
                      ELSE IF best_effort THEN "swallowed"
                      ELSE "LOCK_STOLEN"]

Shared ==
    [locks |-> locks, active |-> active, store |-> store,
     deletes |-> deletes, wrote |-> FALSE, out |-> "none"]

\* a sleeping background loop of a client without a lock has no phase
Unphased(f, act) ==
    [c \in Clients |-> IF act[c] = 0 /\ f[c].pc = "wait"
                       THEN [f[c] EXCEPT !.at = 0] ELSE f[c]]

\* the application calls release_lock (or lock.release) on a lock object that
\* an earlier acquire_lock of this client returned
Release(c, id, best_effort) ==
    LET r == ReleaseLock(Shared, id, best_effort) IN
    /\ id \in 1..Len(locks)
    /\ locks[id].owner = c
    /\ locks[id].status # "PENDING"
    /\ ThreadLockFree(id)
    /\ locks' = [r.locks EXCEPT ![id].relcalled = (@ \/ Solo)]
    /\ active' = r.active
    /\ store' = r.store
    /\ deletes' = r.deletes
    /\ snd' = Unphased(snd, r.active)
    /\ chk' = Unphased(chk, r.active)
    /\ UNCHANGED <<bvars, party, now, acq, shutting_down, stalled, alternating>>

----------------------------------------------------------------------------
(* heartbeat sender *)

\* the sender sleeps up to the next period
WaitingSender(c, act) ==
    [IdleSender EXCEPT !.at = IF act[c] = 0 THEN 0 ELSE now + HeartbeatPeriod]

\* top of _send_heartbeat_loop: test the flag, copy self._locks
SendHeartbeatLoop(c) ==
    /\ snd[c].pc = "wait"
    /\ now >= snd[c].at
    /\ ~stalled[c]
    /\ active[c] # 0 \/ shutting_down[c]
    /\ snd' = [snd EXCEPT ![c] =
                 IF shutting_down[c] THEN [@ EXCEPT !.pc = "dead"]
                 ELSE [pc |-> "hb", at |-> now, snap |-> active[c],
                       ok |-> FALSE]]
    /\ UNCHANGED <<bvars, party, now, store, deletes, locks, active, acq, chk,
                   shutting_down, stalled, alternating>>

\* the local effect of a failed condition check in _update_lock_in_dynamodb
LockStolen(l) ==
    [l EXCEPT !.status = "INVALID", !.pops = @ + 1, !.stolenCb = @ + 1]

\* _send_heartbeat up to the return of _update_lock_in_dynamodb
SendHeartbeat(c) ==
    LET id == snd[c].snap
        l == locks[id]
    IN
    /\ snd[c].pc = "hb"
    /\ IF active[c] = 0 \/ l.status # "LOCKED"
       THEN /\ snd' = [snd EXCEPT ![c] = WaitingSender(c, active)]
            /\ UNCHANGED <<store, locks, active, chk>>
       ELSE IF RvnCondition(store, <<id, l.ver>>)
       THEN /\ store' = [store EXCEPT !.rvn = <<id, l.ver + 1>>,
                                      !.expiry = now + ExpiryPeriod]
            /\ snd' = [snd EXCEPT ![c].pc = "upd", ![c].ok = TRUE]
            /\ UNCHANGED <<locks, active, chk>>
       ELSE /\ locks' = [locks EXCEPT ![id] = LockStolen(l)]
            /\ active' = [active EXCEPT ![c] = 0]
            /\ snd' = [snd EXCEPT ![c].pc = "upd", ![c].ok = FALSE]
            /\ chk' = Unphased(chk, active')
            /\ UNCHANGED store
    /\ UNCHANGED <<bvars, party, now, deletes, acq, shutting_down, stalled,
                   alternating>>

\* the in-memory update that _update_lock_freshness makes once
\* _update_lock_in_dynamodb has returned (ok: the store update succeeded)
FreshenLock(l, ok) ==
    [l EXCEPT !.ver = @ + 1, !.expiry = now + ExpiryPeriod, !.lut = now,
              !.status = "LOCKED"]

UpdateLockFreshness(c) ==
    LET id == snd[c].snap IN
    /\ snd[c].pc = "upd"
    /\ locks' = [locks EXCEPT ![id] = FreshenLock(@, snd[c].ok)]
    /\ snd' = [snd EXCEPT ![c] = WaitingSender(c, active)]
    /\ UNCHANGED <<bvars, party, now, store, deletes, active, acq, chk,
                   shutting_down, stalled, alternating>>

----------------------------------------------------------------------------
(* heartbeat checker *)

\* faulty variant of the safe-period test: no lock is ever safe
LockIsSafeNever(l) == FALSE

\* the lock is still within its safe period
LockIsSafe(l) == now < l.lut + SafePeriod

\* _check_heartbeat on the lock object id
CheckHeartbeat(c, id) ==
    IF active[c] = 0 \/ locks[id].status # "LOCKED" \/ LockIsSafe(locks[id])
    THEN locks
    ELSE [locks EXCEPT ![id].status = "IN_DANGER", ![id].dangerCb = @ + 1]

\* one pass of _check_heartbeat_loop: test the flag, copy self._locks, check
\* the lock in the copy, sleep up to the next period
CheckHeartbeatLoop(c) ==
    /\ chk[c].pc = "wait"
    /\ now >= chk[c].at
    /\ ~stalled[c]
    /\ active[c] # 0 \/ shutting_down[c]
    /\ active[c] # 0 => ThreadLockFree(active[c])
    /\ chk' = [chk EXCEPT ![c] =
                 IF shutting_down[c] THEN [@ EXCEPT !.pc = "dead"]
                 ELSE [@ EXCEPT !.at = now + HeartbeatPeriod]]
    /\ locks' = IF shutting_down[c] THEN locks
                ELSE CheckHeartbeat(c, active[c])
    /\ UNCHANGED <<bvars, party, now, store, deletes, active, acq, snd,
                   shutting_down, stalled, alternating>>

----------------------------------------------------------------------------
(* time *)

\* a background loop of c is due
Due(c, f) ==
    /\ ~stalled[c]
    /\ f[c].pc = "wait"
    /\ f[c].at <= now
    /\ active[c] # 0 \/ shutting_down[c]

\* a thread of c has a step to run before the clock moves on
Busy(c) ==
    \/ acq[c].pc \in {"insert", "overwrite"}
    \/ acq[c].pc = "poll" /\ acq[c].at <= now
    \/ snd[c].pc \in {"hb", "upd"}
    \/ Due(c, snd)
    \/ Due(c, chk)

\* the process of a lock holder is frozen (b = TRUE) or thawed while its
\* background threads sleep
Stall(c, b) ==
    /\ c \in Freezable
    /\ stalled[c] # b
    /\ b => active[c] # 0
    /\ snd[c].pc = "wait"
    /\ stalled' = [stalled EXCEPT ![c] = b]
    /\ UNCHANGED <<bvars, party, now, store, deletes, locks, active, acq, snd, chk,
                   shutting_down, alternating>>

Tick ==
    /\ now < MaxTime
    /\ \A c \in Clients : ~Busy(c)
    /\ now' = now + 1
    /\ UNCHANGED <<bvars, party, store, deletes, locks, active, acq, snd, chk,
                   shutting_down, stalled, alternating>>

----------------------------------------------------------------------------
(* store errors other than a failed condition, and close *)

\* a pass of the while-loop of acquire_lock whose get_item raises a
\* ClientError
PollError(c, rt, code) ==
    LET a == acq[c] IN
    /\ a.pc = "poll"
    /\ now >= a.at
    /\ ~shutting_down[c]
    /\ locks' = [locks EXCEPT ![a.lk].lut = now,
                              ![a.lk].expiry = now + ExpiryPeriod]
    /\ acq' = [acq EXCEPT ![c] = OnClientError(a, rt, code)]
    /\ UNCHANGED <<bvars, party, now, store, deletes, active, snd, chk,
                   shutting_down, stalled, alternating>>

\* the put_item of acquire_lock raises a ClientError that is not the outcome
\* of its condition; the item is not written
PutError(c, rt, code) ==
    LET a == acq[c] IN
    /\ a.pc \in {"insert", "overwrite"}
    /\ acq' = [acq EXCEPT ![c] = OnClientError(a, rt, code)]
    /\ UNCHANGED <<bvars, party, now, store, deletes, locks, active, snd, chk,
                   shutting_down, stalled, alternating>>

\* _delete_lock_from_dynamodb when delete_item raises a ClientError with the
\* given code: what release_lock raises ("none": it returns)
DeleteError(best_effort, code) ==
    IF best_effort THEN "none"
    ELSE IF code = CONDITIONAL_CHECK_EXCEPTION THEN "LOCK_STOLEN"
    ELSE "UNKNOWN"

\* release_lock whose delete_item raises a ClientError that is not the
\* outcome of its condition; the item is not deleted
ReleaseLockError(st, id, best_effort, code) ==
    LET l == st.locks[id]
        c == l.owner
    IN  IF l.status \notin {"LOCKED", "IN_DANGER"}
        THEN [st EXCEPT !.out = "skipped", !.wrote = FALSE]
        ELSE IF st.active[c] = 0
        THEN [st EXCEPT !.out = "absent", !.wrote = FALSE]
        ELSE [st EXCEPT !.locks[id].status = "RELEASED",
                        !.active[c] = 0,
                        !.wrote = TRUE,
                        !.out = DeleteError(best_effort, code)]

ReleaseError(c, id, best_effort, code) ==
    LET r == ReleaseLockError(Shared, id, best_effort, code) IN
    /\ id \in 1..Len(locks)
    /\ locks[id].owner = c
    /\ locks[id].status # "PENDING"
    /\ ThreadLockFree(id)
    /\ r.wrote
    /\ locks' = [r.locks EXCEPT ![id].relcalled = (@ \/ Solo)]
    /\ active' = r.active
    /\ snd' = Unphased(snd, r.active)
    /\ chk' = Unphased(chk, r.active)
    /\ UNCHANGED <<bvars, party, now, store, deletes, acq, shutting_down, stalled,
                   alternating>>

\* the clients that may be closed
Closable == {"B"}

\* close() up to the joins: the flag is set
CloseStart(c) ==
    /\ c \in party \cap Closable
    /\ ~shutting_down[c]
    /\ shutting_down' = [shutting_down EXCEPT ![c] = TRUE]
    /\ UNCHANGED <<bvars, party, now, store, deletes, locks, active, acq, snd, chk,
                   stalled, alternating>>

\* _release_all_locks applied to the shared state
ReleaseAllLocks(st, c) ==
    IF st.active[c] = 0 THEN st
    ELSE LET r == ReleaseLock(st, st.active[c], TRUE)
         IN  [r EXCEPT !.locks[st.active[c]].stolenCb = @ + 1]

\* close() from the return of the two joins on: both background threads have
\* ended, the locks are released if asked for, the flag is reset
CloseFinish(c, release_locks) ==
    LET r == IF release_locks THEN ReleaseAllLocks(Shared, c) ELSE Shared IN
    /\ shutting_down[c]
    /\ snd[c].pc = "dead"
    /\ chk[c].pc = "dead"
    /\ locks' = r.locks
    /\ active' = r.active
    /\ store' = r.store
    /\ deletes' = r.deletes
    /\ shutting_down' = [shutting_down EXCEPT ![c] = FALSE]
    /\ UNCHANGED <<bvars, party, now, acq, snd, chk, stalled, alternating>>

Next ==
    \/ \E c \in Clients, rp \in RetryPeriods : AcquireStart(c, rp)
    \/ \E c \in Clients, rt \in RetryTimeouts : Poll(c, rt)
    \/ \E c \in Clients, rt \in RetryTimeouts : Insert(c, rt)
    \/ \E c \in Clients, rt \in RetryTimeouts : Overwrite(c, rt)
    \/ \E c \in Clients, id \in 1..Len(locks), be \in BOOLEAN :
          Release(c, id, be)
    \/ \E c \in Clients : SendHeartbeatLoop(c)
    \/ \E c \in Clients : SendHeartbeat(c)
    \/ \E c \in Clients : UpdateLockFreshness(c)
    \/ \E c \in Clients : CheckHeartbeatLoop(c)
    \/ \E c \in Clients, b \in BOOLEAN : Stall(c, b)
    \/ Tick

Spec == Init /\ [][Next]_vars

SpecSolo == InitSolo /\ [][Next]_vars

\* every thread that has a step to run runs it; a frozen process is resumed
\* and, however often it is frozen again, its background loops get their
\* turn; the clock advances
Fairness ==
    /\ \A c \in Clients :
          /\ WF_vars(\E rt \in RetryTimeouts : Poll(c, rt))
          /\ WF_vars(\E rt \in RetryTimeouts : Insert(c, rt))
          /\ WF_vars(\E rt \in RetryTimeouts : Overwrite(c, rt))
          /\ SF_vars(SendHeartbeatLoop(c))
          /\ WF_vars(SendHeartbeat(c))
          /\ WF_vars(UpdateLockFreshness(c))
          /\ SF_vars(CheckHeartbeatLoop(c))
          /\ WF_vars(Stall(c, FALSE))
    /\ SF_vars(Tick)

SpecLive == Init /\ [][Next]_vars /\ Fairness

\* a store call of acquire_lock is slow: the clock moves on although a call
\* has a step to run (the background threads stay on time)
Lag ==
    /\ now < MaxTime
    /\ \E c \in Clients :
          \/ acq[c].pc \in {"insert", "overwrite"}
          \/ acq[c].pc = "poll" /\ acq[c].at <= now
    /\ \A c \in Clients :
          /\ snd[c].pc \notin {"hb", "upd"}
          /\ ~Due(c, snd)
          /\ ~Due(c, chk)
    /\ now' = now + 1
    /\ UNCHANGED <<bvars, party, store, deletes, locks, active, acq, snd, chk,
                   shutting_down, stalled, alternating>>

\* a retry_period other than the default
LongRetryPeriods == {2}

\* the operations of clients whose processes, once frozen, are not resumed,
\* with slow store calls and with calls that pass their own retry_period
NextLag ==
    \/ \E c \in Clients, rp \in RetryPeriods \cup LongRetryPeriods :
          AcquireStart(c, rp)
    \/ \E c \in Clients, rt \in RetryTimeouts : Poll(c, rt)
    \/ \E c \in Clients, rt \in RetryTimeouts : Insert(c, rt)
    \/ \E c \in Clients, rt \in RetryTimeouts : Overwrite(c, rt)
    \/ \E c \in Clients, id \in 1..Len(locks), be \in BOOLEAN :
          Release(c, id, be)
    \/ \E c \in Clients : SendHeartbeatLoop(c)
    \/ \E c \in Clients : SendHeartbeat(c)
    \/ \E c \in Clients : UpdateLockFreshness(c)
    \/ \E c \in Clients : CheckHeartbeatLoop(c)
    \/ \E c \in Clients : Stall(c, TRUE)
    \/ Tick
    \/ Lag

\* every thread that has a step to run runs it, and the clock advances
FairnessLag ==
    /\ \A c \in Clients :
          /\ WF_vars(\E rt \in RetryTimeouts : Poll(c, rt))
          /\ WF_vars(\E rt \in RetryTimeouts : Insert(c, rt))
          /\ WF_vars(\E rt \in RetryTimeouts : Overwrite(c, rt))
          /\ WF_vars(SendHeartbeatLoop(c))
          /\ WF_vars(SendHeartbeat(c))
          /\ WF_vars(UpdateLockFreshness(c))
          /\ WF_vars(CheckHeartbeatLoop(c))
    /\ WF_vars(Tick)

SpecLag == Init /\ [][NextLag]_vars /\ FairnessLag

Faults == ClientErrors \ {CONDITIONAL_CHECK_EXCEPTION}

\* the operations with store errors other than a failed condition
NextFault ==
    \/ Next
    \/ \E c \in Clients, rt \in RetryTimeouts, code \in Faults :
          PollError(c, rt, code)
    \/ \E c \in Clients, rt \in RetryTimeouts, code \in Faults :
          PutError(c, rt, code)
    \/ \E c \in Clients, id \in 1..Len(locks), be \in BOOLEAN,
          code \in Faults : ReleaseError(c, id, be, code)

SpecFault == Init /\ [][NextFault]_vars

\* the operations with close()
NextClose ==
    \/ Next
    \/ \E c \in Clients : CloseStart(c)
    \/ \E c \in Clients, release_locks \in BOOLEAN :
          CloseFinish(c, release_locks)

SpecClose == Init /\ [][NextClose]_vars

\* _send_heartbeat whose update_item raises a ClientError that is not the
\* outcome of its condition: the item is not written, _update_lock_in_dynamodb
\* raises DynamoDBLockError UNKNOWN, which no frame up to the thread's target
\* _send_heartbeat_loop catches
SendHeartbeatError(c, code) ==
    LET id == snd[c].snap IN
    /\ snd[c].pc = "hb"
    /\ active[c] # 0
    /\ locks[id].status = "LOCKED"
    /\ code # CONDITIONAL_CHECK_EXCEPTION
    /\ snd' = [snd EXCEPT ![c].pc = "dead"]
    /\ UNCHANGED <<bvars, party, now, store, deletes, locks, active, acq, chk,
                   shutting_down, stalled, alternating>>

\* the operations with store errors of the heartbeat update
NextSendFault ==
    \/ Next
    \/ \E c \in Clients, code \in Faults : SendHeartbeatError(c, code)

SpecSendFault == Init /\ [][NextSendFault]_vars

\* the lock manager handed to a DynamoDBLockCircuitBreaker as lock_client
BreakerLockClient == "B"

\* a table operation of the breaker under the lock, from the return of its
\* acquire_lock(partition_key=self._name) on: the table call, and the finally
\* clause, lock.release() and lock_client.close() up to the joins
WithLockFinally(c) ==
    LET id == acq[c].lk
        r == ReleaseLock(Shared, id, TRUE)
    IN  /\ c \in party \cap {BreakerLockClient}
        /\ acq[c].pc = "idle"
        /\ acq[c].res = "LOCKED"
        /\ ~shutting_down[c]
        /\ ThreadLockFree(id)
        /\ locks' = r.locks
        /\ active' = r.active
        /\ store' = r.store
        /\ deletes' = r.deletes
        /\ snd' = Unphased(snd, r.active)
        /\ chk' = Unphased(chk, r.active)
        /\ acq' = [acq EXCEPT ![c] = IdleAcq]
        /\ shutting_down' = [shutting_down EXCEPT ![c] = TRUE]
        /\ UNCHANGED <<bvars, party, now, stalled, alternating>>

\* the lock manager is used by the application and by a breaker; only the
\* breaker's table operations close it
NextWithLock ==
    \/ Next
    \/ \E c \in Clients : WithLockFinally(c)
    \/ \E c \in Clients : CloseFinish(c, FALSE)

SpecWithLock == Init /\ [][NextWithLock]_vars

----------------------------------------------------------------------------
(* Circuit breaker (utilities/circuit_breaker): one InMemoryCircuitBreaker    *)
(* object decorating one function that several threads call.  The clock is   *)
(* time() in whole seconds; it may advance while a call is inside the        *)
(* wrapped function.  The bookkeeping of one outcome (__exit__ with          *)
(* _call_failed or _call_succeeded) is one step.                             *)

\* Bound of the model: the number of calls of the decorated function
MaxCalls == 5

Threads == {"T1", "T2"}

\* class constants of BaseCircuitBreaker
FAILURE_THRESHOLD == 5
RECOVERY_TIMEOUT == 30
SECONDS_TO_SECONDS_FACTOR == 1000

\* Arguments of the constructor; 0 stands for None
FailureThresholds == {0, 1, 2}
RecoveryTimeouts == {0, 2}

\* exception classes and their base class; GeneratorExit derives from
\* BaseException, not from Exception
Base ==
    [ConnectionError |-> "IOError", IOError |-> "Exception",
     ValueError |-> "Exception", Exception |-> "none",
     GeneratorExit |-> "none"]

\* the expected_exception argument ({}: None)
ExpectedExceptions == {{}, {"IOError"}}

\* what the wrapped function does when it is run
Outcomes == {"ok", "ConnectionError", "ValueError"}

\* the arguments the decorated function is called with
Args == {1, 2}

RECURSIVE IsSubclass(_, _)
\* issubclass(a, b)
IsSubclass(a, b) ==
    IF a = b THEN TRUE
    ELSE IF Base[a] = "none" THEN FALSE
    ELSE IsSubclass(Base[a], b)

\* time() * 1000, rounded
CurrentMilliTime == now * SECONDS_TO_SECONDS_FACTOR

\* BaseCircuitBreaker.__init__
NewBreaker(failure_threshold, recovery_timeout, expected_exception, fallback_function) ==
    [last_failure |-> "none",
     failure_count |-> 0,
     failure_threshold |->
         IF failure_threshold = 0 THEN FAILURE_THRESHOLD
         ELSE failure_threshold,
     recovery_timeout_in_milli |->
         (IF recovery_timeout = 0 THEN RECOVERY_TIMEOUT ELSE recovery_timeout)
             * SECONDS_TO_SECONDS_FACTOR,
     expected_exception |->
         IF expected_exception = {} THEN {"Exception"}
         ELSE expected_exception,
     fallback_function |-> fallback_function,
     state |-> "CLOSED",
     opened |-> CurrentMilliTime]

\* what a call of the decorated function came to: how it ended, the
\* exception it raised, the arguments the result was computed from
NoResult == [how |-> "none", exc |-> "none", args |-> 0]

\* the frame of a call: seen is the state the wrapper read, ran tells
\* whether the call ran the wrapped function
\* the circuit breaker objects that share one item of the table
Insts == {"I1", "I2"}

\* an object that is not in use
OffInst == [pc |-> "off", ran |-> FALSE, exc |-> "none", res |-> [exc |-> "none"]]

IdleCall ==
    [pc |-> "idle", args |-> 0, seen |-> "none", ran |-> FALSE,
     res |-> NoResult, tries |-> 0, count0 |-> 0]

InitBreaker ==
    /\ party = {}
    /\ Common
    /\ \E ft \in FailureThresholds, rt \in RecoveryTimeouts,
          ee \in ExpectedExceptions, fb \in BOOLEAN :
          breaker = NewBreaker(ft, rt, ee, fb)
    /\ call = [t \in Threads |-> IdleCall]
    /\ started = 0
    /\ table = [cb_state |-> "none"]
    /\ inst = [i \in Insts |-> OffInst]

\* faulty variant of the threshold test: one failure more is needed
ThresholdOccurredLate(b) == b.failure_count > b.failure_threshold

\* _threshold_occurred
ThresholdOccurred(b) == b.failure_count >= b.failure_threshold

\* InMemoryCircuitBreaker.open_remaining
OpenRemaining(b) ==
    (b.opened + b.recovery_timeout_in_milli) - CurrentMilliTime

\* the remaining time in the text of CircuitBreakerException:
\* round(open_remaining), of a whole number
SecRemaining(b) == OpenRemaining(b)

\* InMemoryCircuitBreaker.state
BreakerState(b) ==
    IF b.state = "OPEN" /\ OpenRemaining(b) <= 0 THEN "HALF_OPEN"
    ELSE b.state

\* faulty variant of opened: the breaker never counts as open
OpenedNever(b) == FALSE

\* InMemoryCircuitBreaker.opened
Opened(b) == BreakerState(b) = "OPEN"

\* is_expected_failure
IsExpectedFailure(b, curr_exception) ==
    \E exc \in b.expected_exception : IsSubclass(curr_exception, exc)

\* faulty variant of _call_succeeded: the count of failures is kept
CallSucceededKeepsCount(b) ==
    [b EXCEPT !.state = "CLOSED", !.last_failure = "none"]

\* InMemoryCircuitBreaker._call_succeeded
CallSucceeded(b) ==
    [b EXCEPT !.state = "CLOSED", !.last_failure = "none",
              !.failure_count = 0]

\* faulty variant of _call_failed: a breaker that opens again keeps the time
\* at which it opened before
CallFailedStale(b) ==
    LET counted == [b EXCEPT !.failure_count = @ + 1] IN
    IF ThresholdOccurred(counted)
    THEN [counted EXCEPT !.state = "OPEN"]
    ELSE counted

\* InMemoryCircuitBreaker._call_failed
CallFailed(b) ==
    LET counted == [b EXCEPT !.failure_count = @ + 1] IN
    IF ThresholdOccurred(counted)
    THEN [counted EXCEPT !.state = "OPEN", !.opened = CurrentMilliTime]
    ELSE counted

\* __exit__ of the with-block around the wrapped function
BreakerExit(b, exc) ==
    IF exc # "ok" /\ IsExpectedFailure(b, exc)
    THEN CallFailed([b EXCEPT !.last_failure = exc])
    ELSE CallSucceeded(b)

\* the variables of the lock clients but the clock
lvars ==
    <<party, store, deletes, locks, active, acq, snd, chk, shutting_down,
      stalled, alternating>>

\* the wrapper made by decorate is called: it reads self.opened and either
\* answers in place of the function or goes on to call it
Wrapper(t, args) ==
    /\ call[t].pc = "idle"
    /\ started < MaxCalls
    /\ started' = started + 1
    /\ call' = [call EXCEPT ![t] =
          IF Opened(breaker)
          THEN [@ EXCEPT !.seen = "OPEN", !.ran = FALSE,
                         !.res = IF breaker.fallback_function
                                 THEN [how |-> "fallback", exc |-> "none",
                                       args |-> args]
                                 ELSE [how |-> "raised",
                                       exc |-> "CircuitBreakerException",
                                       args |-> 0]]
          ELSE [@ EXCEPT !.pc = "func", !.args = args,
                         !.seen = BreakerState(breaker), !.ran = FALSE,
                         !.res = NoResult]]
    /\ UNCHANGED <<lvars, now, breaker, rvars>>

\* the wrapped function returns or raises, and __exit__ records the outcome
Return(t, outcome) ==
    /\ call[t].pc = "func"
    /\ breaker' = BreakerExit(breaker, outcome)
    /\ call' = [call EXCEPT ![t].pc = "idle", ![t].args = 0,
                            ![t].ran = TRUE,
                            ![t].res =
                                IF outcome = "ok"
                                THEN [how |-> "returned", exc |-> "none",
                                      args |-> call[t].args]
                                ELSE [how |-> "raised", exc |-> outcome,
                                      args |-> 0]]
    /\ UNCHANGED <<lvars, now, started, rvars>>

\* the clock advances
Pass ==
    /\ now < MaxTime
    /\ now' = now + 1
    /\ UNCHANGED <<lvars, bvars>>

NextBreaker ==
    \/ \E t \in Threads, args \in Args : Wrapper(t, args)
    \/ \E t \in Threads, outcome \in Outcomes : Return(t, outcome)
    \/ Pass

SpecBreaker == InitBreaker /\ [][NextBreaker]_vars

----------------------------------------------------------------------------
(* A decorated generator function: the wrapper returns the generator made
   by call_generator, whose with-block is entered at the first next() and
   left when the body ends, raises or is closed *)

\* the wrapper is called: it reads self.opened and either answers in place
\* of the function or returns a generator that has not started
GenWrapper(t, args) ==
    /\ call[t].pc = "idle"
    /\ started < MaxCalls
    /\ started' = started + 1
    /\ call' = [call EXCEPT ![t] =
          IF Opened(breaker)
          THEN [@ EXCEPT !.seen = "OPEN", !.ran = FALSE,
                         !.res = IF breaker.fallback_function
                                 THEN [how |-> "fallback", exc |-> "none",
                                       args |-> args]
                                 ELSE [how |-> "raised",
                                       exc |-> "CircuitBreakerException",
                                       args |-> 0]]
          ELSE [@ EXCEPT !.pc = "created", !.args = args,
                         !.seen = BreakerState(breaker), !.ran = FALSE,
                         !.res = NoResult]]
    /\ UNCHANGED <<lvars, now, breaker, rvars>>

\* the generator is live: made and not yet ended
GenLive(t) == call[t].pc \in {"created", "suspended"}

\* next(): the body runs up to a yield
GenYield(t) ==
    /\ GenLive(t)
    /\ call' = [call EXCEPT ![t].pc = "suspended", ![t].ran = TRUE]
    /\ UNCHANGED <<lvars, now, breaker, started, rvars>>

\* next(): the body raises and __exit__ records the outcome
GenRaise(t, exc) ==
    /\ GenLive(t)
    /\ breaker' = BreakerExit(breaker, exc)
    /\ call' = [call EXCEPT ![t].pc = "idle", ![t].args = 0, ![t].ran = TRUE,
                            ![t].res = [how |-> "raised", exc |-> exc,
                                        args |-> 0]]
    /\ UNCHANGED <<lvars, now, started, rvars>>

\* next(): the body ends, __exit__ records the outcome and the consumer gets
\* StopIteration
GenExhaust(t) ==
    /\ GenLive(t)
    /\ breaker' = BreakerExit(breaker, "ok")
    /\ call' = [call EXCEPT ![t].pc = "idle", ![t].ran = TRUE,
                            ![t].res = [how |-> "returned", exc |-> "none",
                                        args |-> call[t].args],
                            ![t].args = 0]
    /\ UNCHANGED <<lvars, now, started, rvars>>

\* the consumer closes the generator or drops its last reference: a
\* generator that has not started just ends, a suspended one gets
\* GeneratorExit at its yield, which leaves the with-block through __exit__
GenClose(t) ==
    /\ GenLive(t)
    /\ breaker' = IF call[t].pc = "suspended"
                  THEN BreakerExit(breaker, "GeneratorExit")
                  ELSE breaker
    /\ call' = [call EXCEPT ![t].pc = "idle", ![t].args = 0,
                            ![t].res = [how |-> "closed", exc |-> "none",
                                        args |-> 0]]
    /\ UNCHANGED <<lvars, now, started, rvars>>

NextGen ==
    \/ \E t \in Threads, args \in Args : GenWrapper(t, args)
    \/ \E t \in Threads : GenYield(t)
    \/ \E t \in Threads, exc \in Outcomes \ {"ok"} : GenRaise(t, exc)
    \/ \E t \in Threads : GenExhaust(t)
    \/ \E t \in Threads : GenClose(t)
    \/ Pass

SpecGen == InitBreaker /\ [][NextGen]_vars

----------------------------------------------------------------------------
(* The wrapper made by retry_until_close, called by one thread *)

MaxTries == 6

RetryThread == "T1"

\* the seconds slept between two attempts, in whole seconds of the clock
RetrySleepTime(b) ==
    (b.recovery_timeout_in_milli \div SECONDS_TO_SECONDS_FACTOR)
        \div b.failure_threshold

\* the wrapper is called: it calls the function without reading the state;
\* tries counts the attempts of this call, count0 is failure_count at its
\* start
RetryWrapper(t, args) ==
    /\ t = RetryThread
    /\ call[t].pc = "idle"
    /\ started < MaxCalls
    /\ started' = started + 1
    /\ call' = [call EXCEPT ![t] =
          [@ EXCEPT !.pc = "func", !.args = args,
                    !.seen = BreakerState(breaker), !.ran = FALSE,
                    !.res = NoResult, !.tries = 0,
                    !.count0 = breaker.failure_count]]
    /\ UNCHANGED <<lvars, now, breaker, rvars>>

\* an attempt: the function returns or raises and __exit__ records the
\* outcome; a result is returned, an exception is caught by the wrapper
RetryReturn(t, outcome) ==
    /\ t = RetryThread
    /\ call[t].pc = "func"
    /\ call[t].tries < MaxTries
    /\ breaker' = BreakerExit(breaker, outcome)
    /\ call' = [call EXCEPT ![t] =
          IF outcome = "ok"
          THEN [@ EXCEPT !.pc = "idle", !.ran = TRUE, !.tries = @ + 1,
                         !.res = [how |-> "returned", exc |-> "none",
                                  args |-> call[t].args],
                         !.args = 0]
          ELSE [@ EXCEPT !.pc = "sleep", !.ran = TRUE, !.tries = @ + 1]]
    /\ UNCHANGED <<lvars, now, started, rvars>>

\* the sleep after a failed attempt, then the test of the while loop: the
\* function is tried again unless the threshold has occurred, in which case
\* the fallback answers or CircuitBreakerException is raised
RetrySleep(t) ==
    /\ t = RetryThread
    /\ call[t].pc = "sleep"
    /\ now + RetrySleepTime(breaker) <= MaxTime
    /\ now' = now + RetrySleepTime(breaker)
    /\ call' = [call EXCEPT ![t] =
          IF ~ThresholdOccurred(breaker)
          THEN [@ EXCEPT !.pc = "func"]
          ELSE [@ EXCEPT !.pc = "idle",
                         !.res = IF breaker.fallback_function
                                 THEN [how |-> "fallback", exc |-> "none",
                                       args |-> call[t].args]
                                 ELSE [how |-> "raised",
                                       exc |-> "CircuitBreakerException",
                                       args |-> 0],
                         !.args = 0]]
    /\ UNCHANGED <<lvars, breaker, started, rvars>>

NextRetry ==
    \/ \E t \in Threads, args \in Args : RetryWrapper(t, args)
    \/ \E t \in Threads, outcome \in Outcomes : RetryReturn(t, outcome)
    \/ \E t \in Threads : RetrySleep(t)
    \/ Pass

SpecRetry == InitBreaker /\ [][NextRetry]_vars

----------------------------------------------------------------------------
(* Circuit breakers backed by a DynamoDB table: DynamoDBCircuitBreaker and
   DynamoDBLockCircuitBreaker.  Several objects of the same name share one
   item.  Every call of the table (get_item, update_item) is one step; the
   acquire_lock / release / close cycle that DynamoDBLockCircuitBreaker puts
   around each of its table calls is part of that step, which is the most a
   lock around a single call can give.  Errors of the table and of the lock
   client do not occur. *)

MaxRemoteCalls == 4

Classes == {"DynamoDBCircuitBreaker", "DynamoDBLockCircuitBreaker"}

RemoteThresholds == {1, 2}
RemoteRecoveryTimeouts == {1}

\* str(self._last_failure); "none" stands for None
Str(x) == IF x = "none" THEN "None" ELSE x

\* _get_empty_dynamo_entry
GetEmptyDynamoEntry(self) ==
    [cb_state |-> "CLOSED",
     opened |-> self.opened,
     failure_count |-> self.failure_count,
     last_failure |-> "",
     failure_threshold |-> self.failure_threshold,
     recovery_timeout |-> self.recovery_timeout_in_milli]

\* _check_remaining, _open_remaining_after_get
CheckRemaining(circuit_breaker_obj) ==
    (circuit_breaker_obj.opened + circuit_breaker_obj.recovery_timeout)
        - CurrentMilliTime

\* update_item of _update_circuit_breaker_item_in_table: the four attributes
\* of the update expression are set, last_failure from the object's own field
UpdateItem(it, circuit_breaker_obj, self) ==
    [it EXCEPT !.cb_state = circuit_breaker_obj.cb_state,
               !.opened = circuit_breaker_obj.opened,
               !.failure_count = circuit_breaker_obj.failure_count,
               !.last_failure = Str(self.last_failure)]

\* _call_succeeded of the two classes, up to the update
RemoteCallSucceeded(circuit_breaker_item) ==
    [circuit_breaker_item EXCEPT !.cb_state = "CLOSED", !.last_failure = "",
                                 !.failure_count = 0]

\* faulty variant of _call_failed: one failure more is needed to open
RemoteCallFailedLate(circuit_breaker_item) ==
    LET counted == [circuit_breaker_item EXCEPT !.failure_count = @ + 1] IN
    IF counted.failure_count > counted.failure_threshold
    THEN [counted EXCEPT !.cb_state = "OPEN", !.opened = CurrentMilliTime]
    ELSE counted

\* _call_failed of the two classes, up to the update
RemoteCallFailed(circuit_breaker_item) ==
    LET counted == [circuit_breaker_item EXCEPT !.failure_count = @ + 1] IN
    IF counted.failure_count >= counted.failure_threshold
    THEN [counted EXCEPT !.cb_state = "OPEN", !.opened = CurrentMilliTime]
    ELSE counted

\* an object after its constructor: the fields of BaseCircuitBreaker, its
\* class, _last_known_item (the item it read or wrote last) and the frame
\* of its call of the decorated function
NewInst(cls, failure_threshold, expected_exception, fallback_function) ==
    [self |-> NewBreaker(failure_threshold, 1, expected_exception,
                         fallback_function),
     cls |-> cls,
     last_known_item |-> [cb_state |-> "none"],
     pc |-> "idle",
     exc |-> "none",
     seen |-> "none",
     ran |-> FALSE,
     res |-> NoResult]

\* a call that cannot be made
OffCall == [IdleCall EXCEPT !.pc = "off"]

\* the objects are constructed, all of one class and with the same
\* arguments; the first constructor found no item and put the empty entry
InitRemote ==
    /\ party = {}
    /\ Common
    /\ breaker = [state |-> "none"]
    /\ call = [t \in Threads |-> OffCall]
    /\ started = 0
    /\ \E cls \in Classes, ft \in RemoteThresholds, rt \in RemoteRecoveryTimeouts,
          ee \in ExpectedExceptions :
          /\ inst = [i \in Insts |->
                        [NewInst(cls, ft, ee, FALSE) EXCEPT
                            !.self.recovery_timeout_in_milli =
                                rt * SECONDS_TO_SECONDS_FACTOR]]
          /\ table = GetEmptyDynamoEntry(NewBreaker(ft, rt, ee, FALSE))

\* the wrapper made by decorate is called and reads self.opened: the state
\* property gets the item
RemoteWrapper(i, args) ==
    /\ inst[i].pc = "idle"
    /\ started < MaxRemoteCalls
    /\ started' = started + 1
    /\ inst' = [inst EXCEPT ![i] =
          LET got == [@ EXCEPT !.last_known_item = table, !.ran = FALSE,
                               !.res = NoResult, !.exc = "none"] IN
          IF table.cb_state = "OPEN" /\ CheckRemaining(table) <= 0
          THEN [got EXCEPT !.pc = "half", !.seen = "HALF_OPEN",
                           !.last_known_item.cb_state = "HALF_OPEN"]
          ELSE IF table.cb_state = "OPEN"
          THEN [got EXCEPT !.seen = "OPEN",
                           !.res = [how |-> "raised",
                                    exc |-> "CircuitBreakerException",
                                    args |-> 0]]
          ELSE [got EXCEPT !.pc = "func", !.seen = table.cb_state]]
    /\ UNCHANGED <<lvars, now, breaker, call, table>>

\* the state property found the recovery timeout over: it updates the item
\* with HALF_OPEN and returns HALF_OPEN, so the function is called
HalfOpenUpdate(i) ==
    /\ inst[i].pc = "half"
    /\ table' = UpdateItem(table, inst[i].last_known_item, inst[i].self)
    /\ inst' = [inst EXCEPT ![i].pc = "func"]
    /\ UNCHANGED <<lvars, now, breaker, call, started>>

\* the wrapped function returns or raises and __exit__ picks _call_failed or
\* _call_succeeded; DynamoDBCircuitBreaker gets the item again,
\* DynamoDBLockCircuitBreaker takes _last_known_item
RemoteReturn(i, outcome) ==
    /\ inst[i].pc = "func"
    /\ inst' = [inst EXCEPT ![i] =
          LET failed == outcome # "ok" /\ IsExpectedFailure(@.self, outcome)
              circuit_breaker_item ==
                  IF @.cls = "DynamoDBCircuitBreaker" THEN table
                  ELSE @.last_known_item
          IN  [@ EXCEPT !.pc = "update", !.exc = outcome, !.ran = TRUE,
                        !.self.last_failure = IF failed THEN outcome ELSE @,
                        !.last_known_item =
                            IF failed THEN RemoteCallFailed(circuit_breaker_item)
                            ELSE RemoteCallSucceeded(circuit_breaker_item)]]
    /\ UNCHANGED <<lvars, now, breaker, call, started, table>>

\* the update that ends _call_failed or _call_succeeded; the call of the
\* decorated function ends with the outcome of the wrapped function
RemoteUpdate(i) ==
    /\ inst[i].pc = "update"
    /\ table' = UpdateItem(table, inst[i].last_known_item, inst[i].self)
    /\ inst' = [inst EXCEPT ![i].pc = "idle",
                            ![i].res =
                                IF inst[i].exc = "ok"
                                THEN [how |-> "returned", exc |-> "none",
                                      args |-> 0]
                                ELSE [how |-> "raised", exc |-> inst[i].exc,
                                      args |-> 0]]
    /\ UNCHANGED <<lvars, now, breaker, call, started>>

NextRemote ==
    \/ \E i \in Insts, args \in Args : RemoteWrapper(i, args)
    \/ \E i \in Insts : HalfOpenUpdate(i)
    \/ \E i \in Insts, outcome \in Outcomes : RemoteReturn(i, outcome)
    \/ \E i \in Insts : RemoteUpdate(i)
    \/ Pass

SpecRemote == InitRemote /\ [][NextRemote]_vars

\* get_item found no item of the breaker's name
NoItem == [cb_state |-> "none"]

\* no object is constructed yet and the table has no item of the name
InitConstruct ==
    /\ party = {}
    /\ Common
    /\ breaker = [state |-> "none"]
    /\ call = [t \in Threads |-> OffCall]
    /\ started = 0
    /\ \E cls \in Classes, ft \in RemoteThresholds, rt \in RemoteRecoveryTimeouts,
          ee \in ExpectedExceptions :
          inst = [i \in Insts |->
                     [NewInst(cls, ft, ee, FALSE) EXCEPT
                         !.pc = "new",
                         !.self.recovery_timeout_in_milli =
                             rt * SECONDS_TO_SECONDS_FACTOR]]
    /\ table = NoItem

\* the constructor up to the get_item of _init_cb_item_in_dynamodb: the
\* fields are set, the item is looked up; an item found ends the constructor
InitGet(i) ==
    /\ inst[i].pc = "new"
    /\ inst' = [inst EXCEPT ![i].self.opened = CurrentMilliTime,
                            ![i].pc = IF table = NoItem THEN "put" ELSE "idle"]
    /\ UNCHANGED <<lvars, now, breaker, call, started, table>>

\* the put_item of _init_cb_item_in_dynamodb, which carries no condition:
\* the empty entry is written and the constructor ends
InitPut(i) ==
    /\ inst[i].pc = "put"
    /\ table' = GetEmptyDynamoEntry(inst[i].self)
    /\ inst' = [inst EXCEPT ![i].pc = "idle"]
    /\ UNCHANGED <<lvars, now, breaker, call, started>>

\* the objects are constructed while constructed objects are in use
NextConstruct ==
    \/ \E i \in Insts : InitGet(i)
    \/ \E i \in Insts : InitPut(i)
    \/ NextRemote

SpecConstruct == InitConstruct /\ [][NextConstruct]_vars

\* update_item raises a ClientError in the update that ends _call_failed or
\* _call_succeeded: the item is not written and the update raises
\* CircuitBreakerException out of __exit__
RemoteUpdateError(i) ==
    /\ inst[i].pc = "update"
    /\ inst' = [inst EXCEPT ![i].pc = "idle",
                            ![i].res = [how |-> "raised",
                                        exc |-> "CircuitBreakerException",
                                        args |-> 0]]
    /\ UNCHANGED <<lvars, now, breaker, call, started, table>>

\* update_item raises a ClientError in the update of the state property:
\* CircuitBreakerException leaves the wrapper before the function is called
HalfOpenUpdateError(i) ==
    /\ inst[i].pc = "half"
    /\ inst' = [inst EXCEPT ![i].pc = "idle",
                            ![i].res = [how |-> "raised",
                                        exc |-> "CircuitBreakerException",
                                        args |-> 0]]
    /\ UNCHANGED <<lvars, now, breaker, call, started, table>>

NextRemoteFault ==
    \/ NextRemote
    \/ \E i \in Insts : RemoteUpdateError(i)
    \/ \E i \in Insts : HalfOpenUpdateError(i)

SpecRemoteFault == InitRemote /\ [][NextRemoteFault]_vars

\* a breaker of any of the three classes: one in memory, or objects that
\* share an item of the table
InitAnyBreaker == InitBreaker \/ InitRemote

NextAnyBreaker == NextBreaker \/ NextRemote

SpecAnyBreaker == InitAnyBreaker /\ [][NextAnyBreaker]_vars

----------------------------------------------------------------------------
(* CircuitBreakerMonitor: the registry of the decorated breakers, here the
   one in-memory breaker *)

\* InMemoryCircuitBreaker.closed
BreakerClosed(b) == BreakerState(b) = "CLOSED"

\* CircuitBreakerMonitor.get_circuits
GetCircuits == {breaker}

\* CircuitBreakerMonitor.get_open
GetOpen == {circuit \in GetCircuits : Opened(circuit)}

\* CircuitBreakerMonitor.get_closed
GetClosed == {circuit \in GetCircuits : BreakerClosed(circuit)}

\* CircuitBreakerMonitor.all_closed
AllClosed == Cardinality(GetOpen) = 0

----------------------------------------------------------------------------
(* Properties *)

LockIds == 1..Len(locks)

\* the lock object whose record lock object i replaced
Victim(i) == locks[i].basis[1]

\* lock object i was won by overwriting the record of another client
TookOver(i) ==
    locks[i].via = "overwrite" /\ locks[Victim(i)].owner # locks[i].owner

\* C1: a lease that acquire_lock won by overwriting a held record was won at
\* least the lease_duration declared in that record after the last
\* successful write (acquisition or heartbeat) of its holder
C1_TakeoverOnlyAfterLease ==
    \A i \in LockIds :
        locks[i].via = "overwrite" => locks[i].age >= locks[Victim(i)].lease

\* B holds a lease it took over from A after A's lease had run out
C1_Witness ==
    \E i \in LockIds :
        /\ TookOver(i)
        /\ locks[i].owner = "B"
        /\ locks[i].status = "LOCKED"
        /\ locks[i].age > locks[Victim(i)].lease

\* the record that the call of c met on its first poll, written by another
\* client, is still the record of the key: its holder neither renewed nor
\* released it since the call began
FirstSightingStands(c) ==
    /\ acq[c].pc # "idle"
    /\ store # NoRec
    /\ store.owner # c
    /\ acq[c].rc > 0 => acq[c].last = store.rvn /\ acq[c].fetch = acq[c].start

\* the call of c ends in this step with ACQUIRE_TIMEOUT
TimesOut(c) ==
    acq[c].pc # "idle" /\ acq'[c].pc = "idle" /\ acq'[c].res = "ACQUIRE_TIMEOUT"

\* the first retry boundary that lies more than lease after the start
RetryThreshold(lease, rp) == ((lease \div rp) + 1) * rp

\* a call against an unrenewed record times out in this step only if its
\* retry_timeout is below bound
NoTimeoutFrom(bound) ==
    \A c \in Clients :
        FirstSightingStands(c) /\ TimesOut(c) => acq'[c].rt < bound

\* c is waiting on an unrenewed record with a retry_timeout of at least bound
\* that ends within the horizon
WaitsFrom(c, bound) ==
    /\ FirstSightingStands(c)
    /\ acq[c].rc > 0
    /\ acq[c].rt >= bound
    /\ acq[c].start + acq[c].rt <= MaxTime

\* the call of c has come to an end, or the record it waited on has changed
Settled(c) == acq[c].pc = "idle" \/ ~FirstSightingStands(c)

HeldByOther(c) == store # NoRec /\ store.owner # c

\* the call of c has a retry_timeout below the lease duration of the record
\* (a call on its first poll has not read its retry_timeout yet)
ShortCall(c) ==
    /\ acq[c].pc # "idle"
    /\ HeldByOther(c)
    /\ acq[c].rc = 0 \/ acq[c].rt < store.lease

\* in this step the call of c registers nothing, writes nothing, prepares no
\* overwrite, and ends, if it ends, with ACQUIRE_TIMEOUT
KeepsOff(c) ==
    /\ active'[c] # acq[c].lk
    /\ locks'[acq[c].lk].status = "PENDING"
    /\ store' = NoRec \/ store'.owner # c
    /\ acq'[c].pc # "overwrite"
    /\ acq'[c].pc = "idle" => acq'[c].res = "ACQUIRE_TIMEOUT"

HeartbeatFailed(c) ==
    snd[c].pc = "upd" /\ ~snd[c].ok /\ snd'[c].pc = "wait"

\* C4: when the conditional update of a heartbeat fails, then once the
\* heartbeat step completes the lease is INVALID, absent from the active
\* set, was removed from it exactly once, and LOCK_STOLEN was submitted
C4_FailedHeartbeatInvalidates ==
    [][\A c \in Clients :
          HeartbeatFailed(c) =>
              /\ locks'[snd[c].snap].status = "INVALID"
              /\ active'[c] # snd[c].snap
              /\ locks'[snd[c].snap].pops = 1
              /\ locks'[snd[c].snap].stolenCb = 1]_vars

\* C5: a lease whose status is RELEASED or INVALID never afterwards has the
\* status LOCKED, IN_DANGER or PENDING
C5_ReleasedInvalidTerminal ==
    [][\A i \in LockIds :
          locks[i].status \in {"RELEASED", "INVALID"} =>
              locks'[i].status \in {"RELEASED", "INVALID"}]_vars

\* C6: a single client that calls acquire_lock only when it holds no lease
\* gets LOCKED on the first poll of every call, without a retry, and whenever
\* all its leases are released the table holds no record of the key
C6_SoloAlternating ==
    (Solo /\ alternating) =>
        /\ \A c \in party :
              /\ acq[c].rc = 0
              /\ acq[c].pc \in {"idle", "poll", "insert"}
              /\ acq[c].res \in {"none", "LOCKED"}
              /\ acq[c].res = "LOCKED" => locks[acq[c].lk].via = "insert"
        /\ \A i \in LockIds :
              locks[i].relcalled => locks[i].status = "RELEASED"
        /\ (\A i \in LockIds : ~Live(i)) => store = NoRec

\* the third lease of the alternating client was acquired and released
C6_Witness ==
    /\ Solo
    /\ alternating
    /\ Len(locks) >= 3
    /\ \A i \in LockIds : locks[i].status = "RELEASED" /\ locks[i].relcalled
    /\ acq["A"].res = "LOCKED"
    /\ store = NoRec
    /\ now > 0

\* C7: a release_lock call on a lease on which release_lock was called before
\* changes neither the status of the lease, nor the active set, nor the
\* record, issues no delete, and does not raise
C7_SecondReleaseNoOp ==
    [][\A c \in Clients, id \in LockIds, be \in BOOLEAN :
          Release(c, id, be) /\ locks[id].relcalled =>
              /\ locks'[id].status = locks[id].status
              /\ active' = active
              /\ store' = store
              /\ ~ReleaseLock(Shared, id, be).wrote
              /\ ReleaseLock(Shared, id, be).out # "LOCK_STOLEN"]_vars

\* the token of the record is replaced by another token of the same lock
\* object: a heartbeat update
Renewal ==
    /\ store # NoRec
    /\ store' # NoRec
    /\ store'.rvn # store.rvn
    /\ store'.rvn[1] = store.rvn[1]

\* C8: a heartbeat replaces the stored token by a different one only when the
\* stored token is the token of the lease in memory, and the token and the
\* last_updated_time of a lease in memory change only to the values of an
\* update that the table accepted: afterwards the token in memory is the
\* token stored
C8_TokenFollowsStore ==
    [][/\ Renewal => store.rvn = <<store.rvn[1], locks[store.rvn[1]].ver>>
       /\ \A i \in LockIds :
             (/\ locks[i].status # "PENDING"
              /\ \/ locks'[i].ver # locks[i].ver
                 \/ locks'[i].lut # locks[i].lut)
             => store'.rvn = <<i, locks'[i].ver>>]_vars

\* the record of lock object i was overwritten by another client
Displaced(i) ==
    /\ i \in LockIds
    /\ \E j \in LockIds : TookOver(j) /\ Victim(j) = i

\* C9: whenever another client takes a key over, the lease of the former
\* holder eventually stops being LOCKED or IN_DANGER and stays so
C9_EventualExclusivity ==
    \A i \in 1..MaxLocks :
        [](Displaced(i) => <>[](i \in LockIds /\ ~Live(i)))

\* the conditional put of the call of c failed in this step
PutLost(c) ==
    /\ acq[c].pc \in {"insert", "overwrite"}
    /\ acq'[c] # acq[c]
    /\ acq'[c].res # "LOCKED"

PutRefused(c) ==
    /\ \E rt \in RetryTimeouts : Insert(c, rt) \/ Overwrite(c, rt)
    /\ active'[c] # acq[c].lk

\* the call of c ends in this step with the given code
EndsWith(c, code) ==
    acq[c].pc # "idle" /\ acq'[c].pc = "idle" /\ acq'[c].res = code

\* a store call of acquire_lock of c raises a ClientError in this step that is
\* not a failed condition
StoreFails(c) ==
    \E rt \in RetryTimeouts, code \in Faults :
        PollError(c, rt, code) \/ PutError(c, rt, code)

\* C11: acquire_lock does not surface contention: a conditional put refused
\* by its condition raises nothing and the call goes on to its next poll (or
\* to the ACQUIRE_TIMEOUT of the wait before it); a call ends only with a
\* lease, ACQUIRE_TIMEOUT, CLIENT_SHUTDOWN or UNKNOWN, with UNKNOWN only on a
\* store error that is not a failed condition and with CLIENT_SHUTDOWN only
\* while the flag is set
C11_ContentionNotSurfaced ==
    [][\A c \in Clients :
          /\ PutRefused(c) =>
                \/ /\ acq'[c].pc = "poll"
                   /\ acq'[c].rc = acq[c].rc + 1
                   /\ acq'[c].res = "none"
                \/ EndsWith(c, "ACQUIRE_TIMEOUT")
          /\ acq'[c].res \in {"none", "LOCKED", "ACQUIRE_TIMEOUT",
                              "CLIENT_SHUTDOWN", "UNKNOWN"}
          /\ EndsWith(c, "UNKNOWN") => StoreFails(c)
          /\ EndsWith(c, "CLIENT_SHUTDOWN") => shutting_down[c]]_vars

\* the insert of a call was refused because another client had inserted
\* first: nothing was raised, the call is in its first retry and sleeps up to
\* the retry boundary
C11_Witness ==
    \E c \in Clients :
        /\ acq[c].pc = "poll"
        /\ acq[c].res = "none"
        /\ acq[c].rc = 1
        /\ acq[c].fetch = -1
        /\ acq[c].at = acq[c].start + acq[c].rp
        /\ acq[c].at > now
        /\ store # NoRec
        /\ store.owner # c

\* the call of c starts a pass of its loop in this step
Polls(c) ==
    acq[c].pc = "poll" /\ acq'[c] # acq[c] /\ acq'[c].lk = acq[c].lk

\* the call of c comes out of a pass without a lease and without a put to
\* make: it is in _wait_between_acquire_lock_retry in this step
Waits(c) ==
    /\ acq[c].pc \in {"poll", "insert", "overwrite"}
    /\ acq'[c] # acq[c]
    /\ acq'[c].lk = acq[c].lk
    /\ acq'[c].pc \in {"poll", "idle"}
    /\ acq'[c].res \in {"none", "ACQUIRE_TIMEOUT"}

\* the retry passes of a call are scheduled on its boundaries, and only on
\* boundaries up to start + retry_timeout
OnBoundary(c) ==
    (acq[c].pc = "poll" /\ acq[c].rc > 0) =>
        /\ acq[c].at = acq[c].start + acq[c].rc * acq[c].rp
        /\ acq[c].at <= acq[c].start + acq[c].rt
        /\ acq[c].rc <= acq[c].rt \div acq[c].rp

\* C12 (as the code has it): the k-th retry pass of acquire_lock starts no
\* earlier than start + k * retry_period and is scheduled on that boundary;
\* a pass is scheduled only on a boundary up to start + retry_timeout, and
\* the call fails with ACQUIRE_TIMEOUT exactly when the next boundary exceeds
\* start + retry_timeout, so it makes at most floor(retry_timeout /
\* retry_period) + 1 passes and always terminates
C12_BoundedRetries ==
    /\ [](\A c \in Clients : OnBoundary(c))
    /\ [][\A c \in Clients :
            /\ Polls(c) =>
                  now >= acq[c].start + acq[c].rc * acq[c].rp
            /\ Waits(c) =>
                  /\ acq'[c].rc = acq[c].rc + 1
                  /\ EndsWith(c, "ACQUIRE_TIMEOUT") <=>
                        acq[c].start + (acq[c].rc + 1) * acq[c].rp
                            > acq[c].start + acq'[c].rt]_vars
    /\ \A c \in Clients :
          (acq[c].pc # "idle" /\ acq[c].rc > 0
              /\ acq[c].start + acq[c].rt <= MaxTime)
              ~> acq[c].pc = "idle"

\* a call with retry_period 2 and retry_timeout 2 made its floor(2 / 2) + 1
\* passes (with retry_period 1 it would have made three) and timed out
C12_Witness ==
    \E c \in Clients :
        /\ acq[c].res = "ACQUIRE_TIMEOUT"
        /\ acq[c].rt = 2
        /\ acq[c].rc = 2
        /\ locks[acq[c].lk].status = "PENDING"

\* C12 (as stated): in addition no pass starts later than start +
\* retry_timeout
C12_NoPassAfterTimeout ==
    /\ C12_BoundedRetries
    /\ [][\A c \in Clients :
            (Polls(c) /\ acq[c].rc > 0) =>
                now <= acq[c].start + acq[c].rt]_vars

\* close() has been called on c: the flag is set, or a background thread has
\* seen it set and ended
Closed(c) == shutting_down[c] \/ snd[c].pc = "dead" \/ chk[c].pc = "dead"

\* C13: from the moment close() is called, every pass of the loop of an
\* acquire_lock call of that client, whether the call was already polling or
\* was started after close() returned, ends the call with CLIENT_SHUTDOWN,
\* and no call returns a lease
C13_ShutdownStopsAcquire ==
    [][\A c \in Clients :
          Closed(c) =>
              /\ Polls(c) => EndsWith(c, "CLIENT_SHUTDOWN")
              /\ ~EndsWith(c, "LOCKED")]_vars

\* C14: release_lock on a LOCKED or IN_DANGER lease marks it RELEASED, takes
\* it out of the active set and issues a delete conditioned on its current
\* token; with best_effort it raises nothing, without it a refused condition
\* raises LOCK_STOLEN and any other store error raises UNKNOWN
C14_ReleaseEffect ==
    [][\A c \in Clients, id \in LockIds, be \in BOOLEAN :
          /\ (Release(c, id, be) /\ Live(id)) =>
                /\ locks'[id].status = "RELEASED"
                /\ active'[c] # id
                /\ ReleaseLock(Shared, id, be).wrote
                /\ store' = IF RvnCondition(store, <<id, locks[id].ver>>)
                            THEN NoRec ELSE store
                /\ ReleaseLock(Shared, id, be).out =
                      IF RvnCondition(store, <<id, locks[id].ver>>)
                      THEN "deleted"
                      ELSE IF be THEN "swallowed" ELSE "LOCK_STOLEN"
          /\ \A code \in Faults :
                (ReleaseError(c, id, be, code) /\ Live(id)) =>
                    /\ locks'[id].status = "RELEASED"
                    /\ active'[c] # id
                    /\ ReleaseLockError(Shared, id, be, code).out =
                          IF be THEN "none" ELSE "UNKNOWN"]_vars

\* the time since the last renewal of lock object i (its acquisition, while
\* it has not been renewed)
SinceRenewal(i) == now - locks[i].lut

\* the checker of c examines the lease in the active set of c in this step
Checks(c) == CheckHeartbeatLoop(c) /\ ~shutting_down[c] /\ active[c] # 0

\* C15: the heartbeat checker is advisory.  For an active LOCKED lease whose
\* last renewal lies more than safe_period back it sets IN_DANGER and submits
\* one LOCK_IN_DANGER callback; it leaves the record, the token, the active
\* set and every other field and lease alone; a LOCKED lease renewed less
\* than safe_period ago is left LOCKED, and nothing but such a check takes a
\* lease to IN_DANGER
C15_CheckerAdvisory ==
    [][/\ \A c \in Clients :
            Checks(c) =>
                LET id == active[c] IN
                /\ store' = store
                /\ active' = active
                /\ deletes' = deletes
                /\ \A i \in LockIds \ {id} : locks'[i] = locks[i]
                /\ locks'[id] = locks[id]
                      \/ locks'[id] = [locks[id] EXCEPT
                                          !.status = "IN_DANGER",
                                          !.dangerCb = @ + 1]
                /\ (locks[id].status = "LOCKED"
                        /\ SinceRenewal(id) > SafePeriod)
                      => /\ locks'[id].status = "IN_DANGER"
                         /\ locks'[id].dangerCb = locks[id].dangerCb + 1
                /\ (locks[id].status = "LOCKED"
                        /\ SinceRenewal(id) < SafePeriod)
                      => locks'[id] = locks[id]
       /\ \A i \in LockIds :
            (locks[i].status # "IN_DANGER" /\ locks'[i].status = "IN_DANGER")
                => /\ Checks(locks[i].owner)
                   /\ active[locks[i].owner] = i
                   /\ locks[i].status = "LOCKED"
                   /\ SinceRenewal(i) >= SafePeriod]_vars

\* the checker found the lease of a frozen holder more than safe_period
\* after its last renewal and marked it: one callback, the lease still in
\* the active set, the record and its token as the holder wrote them
C15_Witness ==
    \E i \in LockIds :
        /\ locks[i].status = "IN_DANGER"
        /\ locks[i].dangerCb = 1
        /\ SinceRenewal(i) > SafePeriod
        /\ active[locks[i].owner] = i
        /\ store = GetItemFromLock(locks[i], i)
        /\ chk[locks[i].owner].at > now

\* a call ends in this step with a failure of the wrapped function that the
\* breaker counts
MatchedFailure ==
    \E t \in Threads, outcome \in Outcomes \ {"ok"} :
        Return(t, outcome) /\ IsExpectedFailure(breaker, outcome)

\* C16: on a CLOSED breaker with threshold T every matched failure adds one
\* to failure_count; the breaker stays CLOSED while the count is below T and
\* is OPEN with failure_count = T after the failure that makes it T; so from
\* failure_count 0 the first T - 1 consecutive failures leave it CLOSED with
\* the number of failures so far and the T-th opens it
C16_OpensAtThreshold ==
    /\ [](breaker.state = "CLOSED" =>
             breaker.failure_count < breaker.failure_threshold)
    /\ [][(MatchedFailure /\ breaker.state = "CLOSED") =>
             /\ breaker'.failure_count = breaker.failure_count + 1
             /\ breaker'.failure_count < breaker.failure_threshold
                   => breaker'.state = "CLOSED"
             /\ breaker'.failure_count = breaker.failure_threshold
                   => breaker'.state = "OPEN"]_vars

\* two calls were made on a breaker with threshold 2, both failed, and the
\* second failure opened it
C16_Witness ==
    /\ breaker.state = "OPEN"
    /\ breaker.failure_threshold = 2
    /\ breaker.failure_count = 2
    /\ started = 2
    /\ \A t \in Threads : call[t].pc = "idle"

\* the breaker is OPEN and its recovery timeout has not elapsed
StillOpen == breaker.state = "OPEN" /\ OpenRemaining(breaker) > 0

\* C17: a call of the decorated function while the breaker is OPEN and its
\* recovery timeout has not elapsed is short-circuited: the wrapped function
\* is not run, failure_count, state and opened-at (the whole breaker) are
\* unchanged, and the caller gets fallback_function(*args) when a fallback is
\* configured and CircuitBreakerException otherwise
C17_OpenShortCircuits ==
    [][\A t \in Threads, args \in Args :
          (Wrapper(t, args) /\ StillOpen) =>
              /\ call'[t].pc = "idle"
              /\ ~call'[t].ran
              /\ breaker' = breaker
              /\ call'[t].res =
                    IF breaker.fallback_function
                    THEN [how |-> "fallback", exc |-> "none", args |-> args]
                    ELSE [how |-> "raised",
                          exc |-> "CircuitBreakerException", args |-> 0]]_vars

\* a call with argument 2 on an OPEN breaker with a fallback, before the
\* recovery timeout of 2 seconds was over, got the fallback's result for 2
\* without running the function
C17_Witness ==
    \E t \in Threads :
        /\ StillOpen
        /\ breaker.recovery_timeout_in_milli = 2 * SECONDS_TO_SECONDS_FACTOR
        /\ now > 0
        /\ call[t].pc = "idle"
        /\ call[t].seen = "OPEN"
        /\ ~call[t].ran
        /\ call[t].res = [how |-> "fallback", exc |-> "none", args |-> 2]

\* the threads that run the wrapped function as a HALF_OPEN probe
Probes == {t \in Threads : call[t].pc = "func" /\ call[t].seen = "HALF_OPEN"}

\* C18: once the recovery timeout of an OPEN breaker has elapsed, exactly one
\* of the calls made from then on, calls of concurrent callers included, runs
\* the wrapped function as the HALF_OPEN probe; every other call is
\* short-circuited until the outcome of the probe is recorded: at no time do
\* two calls run the wrapped function as probes
C18_SingleProbe == Cardinality(Probes) <= 1

\* the call of thread t is a probe whose outcome is recorded while the
\* breaker is HALF_OPEN
ProbeEnds(t, outcome) ==
    /\ Return(t, outcome)
    /\ call[t].seen = "HALF_OPEN"
    /\ BreakerState(breaker) = "HALF_OPEN"

C20_UnexpectedFailureFrame ==
    [][\A t \in Threads, outcome \in Outcomes \ {"ok"} :
          (Return(t, outcome) /\ ~IsExpectedFailure(breaker, outcome)) =>
              /\ call'[t].res.how = "raised"
              /\ call'[t].res.exc = outcome
              /\ breaker'.state = breaker.state
              /\ breaker'.failure_count = breaker.failure_count
              /\ breaker'.opened = breaker.opened
              /\ breaker'.last_failure = breaker.last_failure]_vars

\* object i ends _call_failed: its update records a failure of an expected
\* kind
RecordsFailure(i) ==
    /\ RemoteUpdate(i)
    /\ inst[i].exc # "ok"
    /\ IsExpectedFailure(inst[i].self, inst[i].exc)

\* C21: with DynamoDBLockCircuitBreaker every read-modify-write of the item
\* is done inside one acquire/release cycle of the lock of the breaker's
\* name, so no update is lost: each failure of an expected kind recorded on
\* a CLOSED item with failure_count c leaves failure_count c + 1, and N
\* objects recording one failure each leave c + N
C21_NoLostUpdate ==
    [][\A i \in Insts :
          (/\ RecordsFailure(i)
           /\ inst[i].cls = "DynamoDBLockCircuitBreaker"
           /\ table.cb_state = "CLOSED") =>
              table'.failure_count = table.failure_count + 1]_vars

\* C22: HALF_OPEN is never persisted: the state stored in the item of a
\* table-backed breaker, with or without lock, is CLOSED or OPEN in every
\* reachable state (reading the state writes nothing; HALF_OPEN is only
\* derived when the state is read)
C22_HalfOpenNotPersisted == table.cb_state \in {"CLOSED", "OPEN"}

\* C23: in every reachable state of a breaker, in memory or as the item of
\* a table-backed breaker of either class under any interleaving of the
\* objects that share it, state = CLOSED implies
\* failure_count < failure_threshold
C23_ClosedBelowThreshold ==
    /\ breaker.state = "CLOSED" =>
          breaker.failure_count < breaker.failure_threshold
    /\ table.cb_state = "CLOSED" =>
          table.failure_count < table.failure_threshold

\* both objects have recorded the outcome of a call whose function ran, and
\* the item is CLOSED with one failure counted, one below the threshold
C23_Witness ==
    /\ table.cb_state = "CLOSED"
    /\ table.failure_threshold = 2
    /\ table.failure_count = 1
    /\ \A i \in Insts : inst[i].pc = "idle" /\ inst[i].ran
    /\ \E i \in Insts : inst[i].res.how = "raised"

\* C24: opened-at is written once per OPEN episode: while the breaker stays
\* OPEN, opened-at changes only when a HALF_OPEN probe fails; a call that
\* was in flight when the breaker opened and fails afterwards does not move
\* it
C24_OpenedOncePerEpisode ==
    [][(/\ breaker.state = "OPEN"
        /\ breaker'.state = "OPEN"
        /\ breaker'.opened # breaker.opened) =>
            \E t \in Threads, outcome \in Outcomes \ {"ok"} :
                /\ ProbeEnds(t, outcome)
                /\ IsExpectedFailure(breaker, outcome)]_vars

\* the generator of thread t is live after the step
GenLiveAfter(t) == call'[t].pc \in {"created", "suspended"}

\* C25: a guarded generator call is accounted as one operation: nothing is
\* recorded while elements are yielded; a success (CLOSED, failure_count 0)
\* is recorded when the sequence is exhausted without error, which ends the
\* call; an error of an expected kind raised while it is consumed records
\* one failure and reaches the consumer; and once the breaker is OPEN a call
\* of the decorated function is short-circuited without starting the body
C25_GeneratorOneOperation ==
    [][\A t \in Threads :
          /\ GenYield(t) => (breaker' = breaker /\ GenLiveAfter(t))
          /\ GenExhaust(t) =>
                /\ breaker'.state = "CLOSED"
                /\ breaker'.failure_count = 0
                /\ ~GenLiveAfter(t)
          /\ \A exc \in Outcomes \ {"ok"} :
                (GenRaise(t, exc) /\ IsExpectedFailure(breaker, exc)) =>
                    /\ breaker'.failure_count = breaker.failure_count + 1
                    /\ breaker'.last_failure = exc
                    /\ call'[t].res = [how |-> "raised", exc |-> exc,
                                       args |-> 0]
                    /\ ~GenLiveAfter(t)
          /\ \A args \in Args :
                (GenWrapper(t, args) /\ StillOpen) =>
                    /\ ~GenLiveAfter(t)
                    /\ ~call'[t].ran
                    /\ call'[t].res.how \in {"fallback", "raised"}
                    /\ breaker' = breaker]_vars

\* a generator raised an expected error while it was consumed, which opened
\* the breaker, and the next call, of the other thread, was short-circuited
\* without running the body
C25_Witness ==
    \E t \in Threads : \E u \in Threads \ {t} :
        /\ StillOpen
        /\ breaker.failure_count = 1
        /\ call[u].pc = "idle"
        /\ call[u].ran
        /\ call[u].res.how = "raised"
        /\ call[u].res.exc = breaker.last_failure
        /\ call[t].pc = "idle"
        /\ call[t].seen = "OPEN"
        /\ ~call[t].ran
        /\ call[t].res.exc = "CircuitBreakerException"

\* C26: a guarded generator that is consumed in part and then abandoned
\* (closed or dropped before it is exhausted, without an error of the
\* wrapped generator) records neither a success nor a failure: state,
\* failure_count, opened-at and last_failure are unchanged
C26_AbandonedGeneratorFrame ==
    [][\A t \in Threads :
          (GenClose(t) /\ call[t].pc = "suspended") =>
              /\ breaker'.state = breaker.state
              /\ breaker'.failure_count = breaker.failure_count
              /\ breaker'.opened = breaker.opened
              /\ breaker'.last_failure = breaker.last_failure]_vars

\* C27: a call through the wrapper of retry_until_close ends: while the
\* function keeps failing, with an expected or an unexpected kind of error,
\* it is tried again until failure_count >= failure_threshold; starting from
\* failure_count 0 the function is tried at most failure_threshold times
C27_BoundedAttempts ==
    \A t \in Threads :
        call[t].count0 = 0 => call[t].tries <= breaker.failure_threshold

\* C28: whenever a guarded call has run the wrapped function and it raised,
\* that same error reaches the caller; CircuitBreakerException is raised
\* only for calls in which the wrapped function was not run
C28_OriginalFailureReachesCaller ==
    /\ \A t \in Threads :
          call[t].res.exc = "CircuitBreakerException" => ~call[t].ran
    /\ \A i \in Insts :
          /\ inst[i].res.exc = "CircuitBreakerException" => ~inst[i].ran
          /\ (inst[i].pc = "idle" /\ inst[i].ran /\ inst[i].exc # "ok") =>
                inst[i].res = [how |-> "raised", exc |-> inst[i].exc,
                               args |-> 0]

\* C29: last_failure follows the latest outcome in every backing mode: after
\* a guarded call failed with an expected error, last_failure is that error;
\* after a guarded call succeeded, last_failure is cleared: None in memory,
\* an empty last_failure in the item of a table-backed breaker
C29_LastFailureTracksOutcome ==
    [][/\ \A t \in Threads, outcome \in Outcomes :
             Return(t, outcome) =>
                 breaker'.last_failure =
                     IF outcome = "ok" THEN "none"
                     ELSE IF IsExpectedFailure(breaker, outcome) THEN outcome
                     ELSE breaker'.last_failure
       /\ \A i \in Insts :
             RemoteUpdate(i) =>
                 table'.last_failure =
                     IF inst[i].exc = "ok" THEN ""
                     ELSE IF IsExpectedFailure(inst[i].self, inst[i].exc)
                          THEN inst[i].exc
                     ELSE table'.last_failure]_vars

\* C30: the views of the monitor agree with the current derived state of
\* each breaker: every registered breaker is returned by exactly one of
\* get_open() and get_closed(), and all_closed() is true exactly when
\* get_closed() returns every registered breaker, also when a breaker is
\* OPEN past its recovery timeout
C30_MonitorViews ==
    /\ \A circuit \in GetCircuits :
          (circuit \in GetOpen) # (circuit \in GetClosed)
    /\ AllClosed <=> (GetClosed = GetCircuits)

\* C31: the sender and the checker loop of a lock manager keep running
\* whatever the breaker that uses the manager does: outside a close() in
\* progress neither background thread of a manager has ended
C31_LoopsSurviveBreaker ==
    \A c \in party :
        ~shutting_down[c] => snd[c].pc # "dead" /\ chk[c].pc # "dead"

\* C32: the sender renews every lease of its snapshot in each period, a lease
\* marked IN_DANGER included: a pass of _send_heartbeat over a lease that is
\* LOCKED or IN_DANGER and in the active set issues the store update
C32_DangerStillRenewed ==
    [][\A c \in party :
          (/\ SendHeartbeat(c)
           /\ active[c] # 0
           /\ active[c] = snd[c].snap
           /\ Live(snd[c].snap))
          => snd'[c].pc = "upd"]_vars

\* C33: once release_lock has returned for a lease, no heartbeat update for
\* that lease is issued to the store, also when the sender had the lease in
\* its snapshot already: a pass of _send_heartbeat over such a lease returns
\* without a store call
C33_NoHeartbeatAfterRelease ==
    [][\A c \in party :
          (SendHeartbeat(c) /\ locks[snd[c].snap].relcalled)
          => (snd'[c].pc # "upd" /\ store' = store)]_vars

\* C34: a call through retry_until_close while the breaker is OPEN and its
\* recovery timeout has not elapsed does not run the wrapped function: it
\* goes straight to fallback_function(*args) when a fallback is configured
\* and to CircuitBreakerException otherwise, as the decorated wrapper does
C34_RetryOpenShortCircuits ==
    [][\A t \in Threads, args \in Args :
          (RetryWrapper(t, args) /\ StillOpen) =>
              /\ call'[t].pc # "func"
              /\ ~call'[t].ran
              /\ call'[t].res.how \in {"fallback", "raised"}]_vars

\* C35: open_remaining, and the remaining time in the text of
\* CircuitBreakerException, is the number of seconds left before the breaker
\* leaves OPEN: the recovery timeout in seconds (the full timeout for a
\* breaker opened now, 30 by default) less the seconds elapsed since opened-at
C35_RemainingInSeconds ==
    breaker.state # "none" =>
        LET R == breaker.recovery_timeout_in_milli \div SECONDS_TO_SECONDS_FACTOR
            elapsed == now - breaker.opened \div SECONDS_TO_SECONDS_FACTOR
        IN  /\ OpenRemaining(breaker) = R - elapsed
            /\ SecRemaining(breaker) = R - elapsed

\* C36: in every state of a manager a lease is LOCKED or IN_DANGER exactly
\* when the active set maps its unique identifier to that very lock object
\* (a lease whose mutex the sender holds is in the middle of a renewal and is
\* not judged)
C36_ActiveSetConsistency ==
    \A id \in LockIds :
        ThreadLockFree(id) =>
            (Live(id) <=> active[locks[id].owner] = id)

\* C37: writes by a displaced holder are harmless: while the record of the
\* key belongs to another client, no heartbeat renewal and no release,
\* best-effort or strict, that a client issues for its own lock object
\* changes or deletes the record: token, owner and expiry stay as they are
C37_DisplacedWritesHarmless ==
    [][\A c \in Clients, id \in LockIds :
          (/\ store # NoRec
           /\ store.owner # c
           /\ locks[id].owner = c
           /\ \/ Release(c, id, TRUE)
              \/ Release(c, id, FALSE)
              \/ (SendHeartbeat(c) /\ snd[c].snap = id))
          => store' = store]_vars

\* a lock object whose record another client overwrote had its heartbeat
\* update refused, or its delete refused, while the record of the other
\* client stands
C37_Witness ==
    \E id \in LockIds :
        /\ store # NoRec
        /\ store.owner # locks[id].owner
        /\ locks[store.rvn[1]].via = "overwrite"
        /\ locks[store.rvn[1]].basis[1] = id
        /\ locks[id].pops > 0 \/ locks[id].status = "RELEASED"

\* C38: a store error other than a failed condition check during a heartbeat
\* renewal does not stop the renewals: after it the sender loop of the
\* manager is still running, and the lease is still LOCKED, in the active set
\* and holds the token it had
C38_SenderSurvivesStoreError ==
    [][\A c \in Clients, code \in Faults :
          SendHeartbeatError(c, code) =>
              /\ snd'[c].pc # "dead"
              /\ locks'[snd[c].snap].status = "LOCKED"
              /\ active'[c] = active[c]
              /\ locks'[snd[c].snap].ver = locks[snd[c].snap].ver]_vars

\* C39: whenever release_lock(lease) returns normally, the status of the
\* lease is neither LOCKED nor IN_DANGER, whatever happened to the lease
\* before
C39_ReleasePostcondition ==
    [][\A c \in Clients, id \in LockIds, be \in BOOLEAN :
          (Release(c, id, be) /\ ReleaseLock(Shared, id, be).out # "LOCK_STOLEN")
          => locks'[id].status \notin {"LOCKED", "IN_DANGER"}]_vars

\* C40: constructing a remote breaker never resets shared state: the initial
\* record is written only when the table has no record of the name at the
\* time of the write, so the write of a constructor never replaces a
\* failure_count, state or opened-at that a guarded call of another object
\* recorded (a record that still is an initial record is not judged)
C40_InitNeverOverwrites ==
    [][\A i \in Insts :
          InitPut(i) =>
              \/ table = NoItem
              \/ (table.failure_count = 0 /\ table.cb_state = "CLOSED")
              \/ /\ table'.failure_count = table.failure_count
                 /\ table'.cb_state = table.cb_state
                 /\ table'.opened = table.opened]_vars

====
